---- MODULE Spec2Model ----
(***************************************************************************)
(* Model of src/src/executor.rs: an Executor owning one background thread  *)
(* that runs a single-threaded reactor (tokio_core::reactor::Core), the    *)
(* two self-rescheduling loops fixed_interval_loop and fixed_rate_loop,    *)
(* and the pure function calculate_delay.                                  *)
(*                                                                         *)
(* Time is discrete. Intervals and the running times of callbacks are      *)
(* whole units; the clock counts ticks of half a unit, so that the owner   *)
(* of the Executor can act between two timer deadlines. Timers are ideal:  *)
(* a timer whose deadline has been reached fires as soon as the reactor    *)
(* thread is idle, and every step of the background thread other than the  *)
(* body of a callback takes no time. The owner of the Executor (the main   *)
(* thread) may act at any tick. A Duration is a natural number of ticks;   *)
(* a Duration subtraction that would underflow panics in Rust and yields   *)
(* Underflow here. A callback may panic, which ends the background thread. *)
(***************************************************************************)
EXTENDS Integers, Sequences, FiniteSets, TLC

\* ---------------------------------------------------------------- bounds
MaxTime     == 12   \* the clock stops at Horizon, which is MaxTime for one loop
MaxInterval == 2    \* intervals passed to schedule_* range over 1..MaxInterval units
MaxExec     == 3    \* a callback body takes 0..MaxExec units
MaxTasks    == 2    \* at most this many schedule_* calls
MaxSubmit   == 1    \* schedule_* is called at ticks 0..MaxSubmit
MaxDur      == 15   \* arguments of calculate_delay range over 0..MaxDur

\* A Duration of n units, in ticks.
Units(n) == 2 * n

Tasks     == 1..MaxTasks
Intervals == 1..MaxInterval
ExecTimes == 0..MaxExec
Durations == 0..MaxDur

VARIABLES
  now,      \* the clock (Instant::now()), in ticks
  main,     \* position of the thread that owns the Executor
  thr,      \* position of the background thread spawned by with_name
  core,     \* lifecycle of the reactor Core owned by the background thread
  remote,   \* TRUE once core.remote() was sent over the handshake channel
  term,     \* termination channel: "pending", "sent" or "canceled"
  sentAt,   \* the tick at which the termination channel was resolved, or -1
  queue,    \* closures handed over by remote.spawn and not yet run (FIFO)
  tasks,    \* one record per scheduled loop
  calls,    \* the number of schedule_* calls the owner may make
  last,     \* the callback that returned at the current tick, and how late
            \* the Timeout dispatched after it was (with several loops)
  obs,      \* when calls = 1: what the callback of task 1 did so far
  calc      \* a call of calculate_delay on drawn inputs (specification SpecCalc)

vars ==
  <<now, main, thr, core, remote, term, sentAt, queue, tasks, calls, obs, last, calc>>

\* ------------------------------------------------------- calculate_delay
\* The value standing for the panic of an underflowing Duration subtraction.
Underflow == -1

\* Duration - Duration (std::time::Duration: Sub panics on underflow).
DurSub(a, b) == IF a < 0 \/ b < 0 \/ a < b THEN Underflow ELSE a - b

\* calculate_delay with the prior debt dropped on overrun.
calculate_delay_forgets_debt(interval, execution, delay) ==
  IF execution >= interval
  THEN <<0, DurSub(execution, interval)>>
  ELSE LET wait_gap == DurSub(interval, execution) IN
       IF delay = 0
       THEN <<wait_gap, 0>>
       ELSE IF delay < wait_gap
            THEN <<DurSub(wait_gap, delay), 0>>
            ELSE <<0, DurSub(delay, wait_gap)>>

\* calculate_delay with the debt cleared but the wait not shortened by it.
calculate_delay_full_gap(interval, execution, delay) ==
  IF execution >= interval
  THEN <<0, DurSub(delay + execution, interval)>>
  ELSE LET wait_gap == DurSub(interval, execution) IN
       IF delay = 0
       THEN <<wait_gap, 0>>
       ELSE IF delay < wait_gap
            THEN <<wait_gap, 0>>
            ELSE <<0, DurSub(delay, wait_gap)>>

\* calculate_delay with the slack not taken off the debt it cannot clear.
calculate_delay_keeps_debt(interval, execution, delay) ==
  IF execution >= interval
  THEN <<0, DurSub(delay + execution, interval)>>
  ELSE LET wait_gap == DurSub(interval, execution) IN
       IF delay = 0
       THEN <<wait_gap, 0>>
       ELSE IF delay < wait_gap
            THEN <<DurSub(wait_gap, delay), 0>>
            ELSE <<0, delay>>

\* calculate_delay with the comparison of debt and slack reversed.
calculate_delay_reversed(interval, execution, delay) ==
  IF execution >= interval
  THEN <<0, DurSub(delay + execution, interval)>>
  ELSE LET wait_gap == DurSub(interval, execution) IN
       IF delay = 0
       THEN <<wait_gap, 0>>
       ELSE IF delay > wait_gap
            THEN <<DurSub(wait_gap, delay), 0>>
            ELSE <<0, DurSub(delay, wait_gap)>>

\* calculate_delay with the two components swapped when there is no debt.
calculate_delay_swapped(interval, execution, delay) ==
  IF execution >= interval
  THEN <<0, DurSub(delay + execution, interval)>>
  ELSE LET wait_gap == DurSub(interval, execution) IN
       IF delay = 0
       THEN <<0, wait_gap>>
       ELSE IF delay < wait_gap
            THEN <<DurSub(wait_gap, delay), 0>>
            ELSE <<0, DurSub(delay, wait_gap)>>

\* calculate_delay with the debt capped at one interval.
calculate_delay_capped(interval, execution, delay) ==
  IF execution >= interval
  THEN LET debt == DurSub(delay + execution, interval) IN
       <<0, IF debt > interval THEN interval ELSE debt>>
  ELSE LET wait_gap == DurSub(interval, execution) IN
       IF delay = 0
       THEN <<wait_gap, 0>>
       ELSE IF delay < wait_gap
            THEN <<DurSub(wait_gap, delay), 0>>
            ELSE <<0, DurSub(delay, wait_gap)>>

\* calculate_delay with an overrun not added to the debt.
calculate_delay_no_catchup(interval, execution, delay) ==
  IF execution >= interval
  THEN <<0, delay>>
  ELSE LET wait_gap == DurSub(interval, execution) IN
       IF delay = 0
       THEN <<wait_gap, 0>>
       ELSE IF delay < wait_gap
            THEN <<DurSub(wait_gap, delay), 0>>
            ELSE <<0, DurSub(delay, wait_gap)>>

\* calculate_delay(interval, execution, delay) -> (next_iter_wait, updated_delay)
calculate_delay(interval, execution, delay) ==
  IF execution >= interval
  THEN <<0, DurSub(delay + execution, interval)>>
  ELSE LET wait_gap == DurSub(interval, execution) IN
       IF delay = 0
       THEN <<wait_gap, 0>>
       ELSE IF delay < wait_gap
            THEN <<DurSub(wait_gap, delay), 0>>
            ELSE <<0, DurSub(delay, wait_gap)>>

\* A fixed-interval loop that always waits the whole interval.
interval_wait_whole(interval, execution) == interval

\* next_iter_wait of fixed_interval_loop.
interval_wait(interval, execution) ==
  IF execution >= interval THEN 0 ELSE DurSub(interval, execution)

Panics(r) == r[1] = Underflow \/ r[2] = Underflow

\* ------------------------------------------------------------ the tasks
\* st:       "none" (never scheduled), "queued" (closure handed to the
\*           reactor), "running" (inside scheduled_fn), "armed" (Timeout
\*           pending), "lost" (the loop panicked)
\* delay:    the `delay` argument of the current or next fixed_rate_loop call
\* start:    start_time of the running iteration
\* at:       running: the tick at which scheduled_fn returns;
\*           armed: the deadline of the Timeout
\* count:    callback invocations begun;  done: invocations returned
\* first:    the tick of the first invocation
\* timers:   the number of Timeouts the loop has pending in the reactor
NoTask ==
  [st |-> "none", policy |-> "none", interval |-> 0, delay |-> 0,
   start |-> 0, at |-> 0, count |-> 0, done |-> 0, first |-> 0, timers |-> 0]

\* A loop spawning two Timeouts for its next iteration.
ArmTimeout_twice(n) == n + 2

\* handle.spawn(t): the loop hands one Timeout for its next iteration to the
\* reactor, which has n of this loop so far.
ArmTimeout(n) == n + 1

\* firstExec: running time of the first invocation of task 1;
\* restZero:  every later invocation so far took no time.
NoObs == [firstExec |-> 0, restZero |-> TRUE, over |-> 0, nover |-> 0]

\* No callback has returned at the current tick.
NoLast == [by |-> 0, from |-> 0, to |-> 0, late |-> 0]

InitSched ==
  /\ now = 0
  /\ main = "start"
  /\ thr = "unspawned"
  /\ core = "none"
  /\ remote = FALSE
  /\ term = "pending"
  /\ sentAt = -1
  /\ queue = <<>>
  /\ tasks = [t \in Tasks |-> NoTask]
  /\ obs = NoObs
  /\ last = NoLast

CalcOff == [pc |-> "off", interval |-> 0, execution |-> 0, delay |-> 0,
            wait |-> 0, debt |-> 0]

Init == InitSched /\ calls = MaxTasks /\ calc = CalcOff

InitOne == InitSched /\ calls = 1 /\ calc = CalcOff

RECURSIVE Halved(_, _)
Halved(h, n) == IF n <= 1 THEN h ELSE Halved(h \div 2, n - 1)

\* The tick at which the clock of the model stops: MaxTime for a single
\* loop, and half as long for every further loop the owner may schedule.
Horizon == Halved(MaxTime, calls)

\* --------------------------------------------------- the owning thread
\* with_name up to thread::Builder::spawn succeeding: the two oneshot
\* channels exist, the thread is started, the caller blocks in core_rx.wait().
ExecutorNew ==
  /\ main = "start"
  /\ main' = "wait_remote"
  /\ thr' = "spawned"
  /\ UNCHANGED <<now, core, remote, term, sentAt, queue, tasks, calls, obs, last, calc>>

\* with_name when thread::Builder::spawn fails: the `?` returns the io::Error.
SpawnFails ==
  /\ main = "start"
  /\ main' = "failed"
  /\ UNCHANGED <<now, thr, core, remote, term, sentAt, queue, tasks, calls, obs, last, calc>>

\* with_name returning without waiting for the handle of the Core.
RemoteReceived_without_wait ==
  /\ main = "wait_remote"
  /\ main' = "ready"
  /\ UNCHANGED <<now, thr, core, remote, term, sentAt, queue, tasks, calls, obs, last, calc>>

\* core_rx.wait() returns the Remote; with_name returns Ok(executor).
RemoteReceived ==
  /\ main = "wait_remote"
  /\ remote
  /\ main' = "ready"
  /\ UNCHANGED <<now, thr, core, remote, term, sentAt, queue, tasks, calls, obs, last, calc>>

\* The next schedule_* call creates the lowest-numbered unused task.
NextTask(t) == tasks[t].st = "none" /\ \A u \in Tasks : u < t => tasks[u].st # "none"

\* remote.spawn(closure): the closure is queued for the reactor thread.
Submit(t, policy, interval) ==
  /\ main = "ready"
  /\ now <= MaxSubmit
  /\ NextTask(t)
  /\ t <= calls
  /\ tasks' = [tasks EXCEPT ![t] =
                 [NoTask EXCEPT !.st = "queued", !.policy = policy,
                                !.interval = interval]]
  /\ queue' = Append(queue, t)
  /\ UNCHANGED <<now, main, thr, core, remote, term, sentAt, calls, obs, last, calc>>

schedule_fixed_interval(t, interval) == Submit(t, "interval", Units(interval))

schedule_fixed_rate(t, interval) == Submit(t, "rate", Units(interval))

\* The background thread is gone: its closure has ended or unwound, so the
\* receiver of the termination channel is dropped and join() can return.
ThreadGone == thr \in {"exited", "panicked"}

\* termination_sender.send(()): with the receiver dropped the send returns
\* Err and changes nothing; the result of the send is discarded.
SendTermination ==
  /\ term' = IF ThreadGone THEN term ELSE "sent"
  /\ sentAt' = now

\* stop_async waiting until no callback is executing.
stop_async_waits ==
  /\ main = "ready"
  /\ thr # "callback"
  /\ SendTermination
  /\ main' = "stopped_async"
  /\ UNCHANGED <<now, thr, core, remote, queue, tasks, calls, obs, last, calc>>

stop_async ==
  /\ main = "ready"
  /\ SendTermination
  /\ main' = "stopped_async"
  /\ UNCHANGED <<now, thr, core, remote, queue, tasks, calls, obs, last, calc>>

\* stop_sync with the result of the send unwrapped.
stop_sync_unwraps ==
  /\ main = "ready"
  /\ IF ThreadGone
     THEN main' = "panicked" /\ UNCHANGED <<term, sentAt>>
     ELSE SendTermination /\ main' = "joining"
  /\ UNCHANGED <<now, thr, core, remote, queue, tasks, calls, obs, last, calc>>

\* stop_sync, first statement: the send; the caller then blocks in join().
stop_sync ==
  /\ main = "ready"
  /\ SendTermination
  /\ main' = "joining"
  /\ UNCHANGED <<now, thr, core, remote, queue, tasks, calls, obs, last, calc>>

\* join() returning without waiting for the thread.
JoinReturns_at_once ==
  /\ main = "joining"
  /\ main' = "stopped_sync"
  /\ UNCHANGED <<now, thr, core, remote, term, sentAt, queue, tasks, calls, obs, last, calc>>

\* stop_sync, second statement: thread_handle.join() returns.
JoinReturns ==
  /\ main = "joining"
  /\ ThreadGone
  /\ main' = "stopped_sync"
  /\ UNCHANGED <<now, thr, core, remote, term, sentAt, queue, tasks, calls, obs, last, calc>>

\* The Executor goes out of scope without a stop call: the Sender is dropped
\* (the receiver resolves as cancelled) and the thread is detached.
DropExecutor ==
  /\ main = "ready"
  /\ term' = "canceled"
  /\ sentAt' = now
  /\ main' = "dropped"
  /\ UNCHANGED <<now, thr, core, remote, queue, tasks, calls, obs, last, calc>>

\* ----------------------------------------------- the background thread
\* Core::new()
CoreNew ==
  /\ thr = "spawned"
  /\ thr' = "created"
  /\ core' = "Created"
  /\ UNCHANGED <<now, main, remote, term, sentAt, queue, tasks, calls, obs, last, calc>>

\* core_tx.send(core.remote())
SendRemote ==
  /\ thr = "created"
  /\ thr' = "sent"
  /\ remote' = TRUE
  /\ UNCHANGED <<now, main, core, term, sentAt, queue, tasks, calls, obs, last, calc>>

\* core.run(termination_rx) is entered.
CoreRun ==
  /\ thr = "sent"
  /\ thr' = "idle"
  /\ core' = "Running"
  /\ UNCHANGED <<now, main, remote, term, sentAt, queue, tasks, calls, obs, last, calc>>

\* A reactor that dispatches on any free thread of a pool.
Dispatching_on_a_pool == core = "Running" /\ thr \in {"idle", "callback"}

\* The reactor is between two dispatches and may start a unit of work.
Dispatching == thr = "idle" /\ core = "Running"

\* core.run taking a cancelled termination receiver as still pending.
ObserveTermination_only_sent ==
  /\ Dispatching
  /\ term = "sent"
  /\ thr' = "returning"
  /\ core' = "TerminationRequested"
  /\ UNCHANGED <<now, main, remote, term, sentAt, queue, tasks, calls, obs, last, calc>>

\* core.run returning only once no Timeout is pending any more.
ObserveTermination_when_quiet ==
  /\ Dispatching
  /\ term # "pending"
  /\ \A t \in Tasks : tasks[t].st # "armed"
  /\ thr' = "returning"
  /\ core' = "TerminationRequested"
  /\ UNCHANGED <<now, main, remote, term, sentAt, queue, tasks, calls, obs, last, calc>>

\* core.run polls termination_rx and finds it resolved (sent or cancelled).
ObserveTermination ==
  /\ Dispatching
  /\ term # "pending"
  /\ thr' = "returning"
  /\ core' = "TerminationRequested"
  /\ UNCHANGED <<now, main, remote, term, sentAt, queue, tasks, calls, obs, last, calc>>

\* The thread entering core.run again instead of returning.
ThreadExit_runs_again ==
  /\ thr = "returning"
  /\ thr' = "idle"
  /\ core' = "Running"
  /\ UNCHANGED <<now, main, remote, term, sentAt, queue, tasks, calls, obs, last, calc>>

\* core.run returns, the closure logs and returns: Core is dropped, the
\* thread exits.
ThreadExit ==
  /\ thr = "returning"
  /\ thr' = "exited"
  /\ core' = "Stopped"
  /\ UNCHANGED <<now, main, remote, term, sentAt, queue, tasks, calls, obs, last, calc>>

\* obs once the callback has been invoked for the (n+1)-th time and takes
\* d ticks.
Observe(n, d) ==
  IF n = 0 THEN [obs EXCEPT !.firstExec = d]
           ELSE [obs EXCEPT !.restZero = @ /\ d = 0]

\* start_time = Instant::now(); scheduled_fn(&handle) is entered; its body
\* takes d units.
BeginCallback(t, d) ==
  /\ now + Units(d) <= Horizon
  /\ thr' = "callback"
  /\ obs' = IF calls = 1 /\ t = 1 THEN Observe(tasks[t].count, Units(d)) ELSE obs
  /\ tasks' = [tasks EXCEPT ![t] =
        [@ EXCEPT !.st = "running",
                  !.start = now,
                  !.at = now + Units(d),
                  !.count = @ + 1,
                  !.first = IF tasks[t].count = 0 THEN now ELSE @,
                  !.timers = IF tasks[t].st = "armed" THEN @ - 1 ELSE @]]

\* The reactor runs the closure queued by schedule_*: the first iteration of
\* the loop, with delay 0.
RunSpawned(t, d) ==
  /\ Dispatching
  /\ queue # <<>>
  /\ t = Head(queue)
  /\ queue' = Tail(queue)
  /\ BeginCallback(t, d)
  /\ UNCHANGED <<now, main, core, remote, term, sentAt, calls, last, calc>>

\* An expired Timeout running its closure without waiting for the reactor
\* thread to be free.
TimerFire_on_expiry(t, d) ==
  /\ core = "Running"
  /\ tasks[t].st = "armed"
  /\ tasks[t].at <= now
  /\ BeginCallback(t, d)
  /\ last' = IF calls > 1 THEN [last EXCEPT !.late = now - tasks[t].at] ELSE last
  /\ UNCHANGED <<now, main, core, remote, term, sentAt, queue, calls, calc>>

\* The Timeout armed by the previous iteration has expired: its `then`
\* closure calls the loop function again.
TimerFire(t, d) ==
  /\ Dispatching
  /\ tasks[t].st = "armed"
  /\ tasks[t].timers > 0
  /\ tasks[t].at <= now
  /\ BeginCallback(t, d)
  /\ last' = IF calls > 1 THEN [last EXCEPT !.late = now - tasks[t].at] ELSE last
  /\ UNCHANGED <<now, main, core, remote, term, sentAt, queue, calls, calc>>

\* obs once an invocation of the callback has returned after `execution`
\* ticks: the executions longer than the interval are counted and the time by
\* which they exceeded it is added up.
ObserveReturn(interval, execution) ==
  IF execution > interval
  THEN [obs EXCEPT !.over = @ + (execution - interval), !.nover = @ + 1]
  ELSE obs

\* Both loops computing their wait with calculate_delay.
NextWait_always_rate(t) ==
  calculate_delay(tasks[t].interval, now - tasks[t].start, tasks[t].delay)

\* (next_iter_wait, updated_delay) as the loop of task t computes them once
\* the callback has returned.
NextWait(t) ==
  LET execution == now - tasks[t].start IN
  IF tasks[t].policy = "rate"
  THEN calculate_delay(tasks[t].interval, execution, tasks[t].delay)
  ELSE <<interval_wait(tasks[t].interval, execution), 0>>

\* scheduled_fn returns; the loop measures the execution, computes the wait
\* and spawns a Timeout for the next iteration.
CallbackReturn(t) ==
  /\ thr = "callback"
  /\ tasks[t].st = "running"
  /\ tasks[t].at <= now
  /\ LET r == NextWait(t) IN
       IF Panics(r)
       THEN /\ thr' = "panicked"
            /\ core' = "Stopped"
            /\ last' = last
            /\ obs' = obs
            /\ tasks' = [tasks EXCEPT ![t] = [@ EXCEPT !.st = "lost"]]
       ELSE /\ thr' = "idle"
            /\ core' = core
            /\ last' = IF calls > 1
                       THEN [by |-> t, from |-> tasks[t].start, to |-> now, late |-> 0]
                       ELSE last
            /\ obs' = IF calls = 1 /\ t = 1
                      THEN ObserveReturn(tasks[t].interval, now - tasks[t].start)
                      ELSE obs
            /\ tasks' = [tasks EXCEPT ![t] =
                  [@ EXCEPT !.st = "armed",
                            !.done = @ + 1,
                            !.start = 0,
                            !.at = now + r[1],
                            !.delay = r[2],
                            !.timers = ArmTimeout(@)]]
  /\ UNCHANGED <<now, main, remote, term, sentAt, queue, calls, calc>>

\* scheduled_fn panics: the panic unwinds out of core.run and ends the
\* thread, dropping the Core, its Timeouts and the termination receiver.
CallbackPanics(t) ==
  /\ thr = "callback"
  /\ tasks[t].st = "running"
  /\ tasks[t].at <= now
  /\ thr' = "panicked"
  /\ core' = "Stopped"
  /\ tasks' = [tasks EXCEPT ![t] = [@ EXCEPT !.st = "lost"]]
  /\ UNCHANGED <<now, main, remote, term, sentAt, queue, calls, obs, last, calc>>

\* ---------------------------------------------------------------- time
\* The background thread has a step to take at the current tick.
BgUrgent ==
  \/ thr \in {"spawned", "created", "sent", "returning"}
  \/ /\ Dispatching
     /\ \/ term # "pending"
        \/ queue # <<>>
        \/ \E t \in Tasks : tasks[t].st = "armed" /\ tasks[t].at <= now
  \/ /\ thr = "callback"
     /\ \E t \in Tasks : tasks[t].st = "running" /\ tasks[t].at <= now

\* A blocked call of the owning thread can return at the current tick.
MainUrgent ==
  \/ main = "start"
  \/ main = "wait_remote" /\ remote
  \/ main = "joining" /\ ThreadGone

Tick ==
  /\ now < Horizon
  /\ ~ThreadGone
  /\ ~BgUrgent
  /\ ~MainUrgent
  /\ now' = now + 1
  /\ last' = NoLast
  /\ UNCHANGED <<main, thr, core, remote, term, sentAt, queue, tasks, calls, obs, calc>>

\* ------------------------------------------ calculate_delay on its own
\* calculate_delay is called on the drawn arguments.
CalcCall ==
  /\ calc.pc = "call"
  /\ LET r == calculate_delay(calc.interval, calc.execution, calc.delay) IN
       calc' = [calc EXCEPT !.pc = IF Panics(r) THEN "panic" ELSE "ret",
                            !.wait = r[1], !.debt = r[2]]
  /\ UNCHANGED <<now, main, thr, core, remote, term, sentAt, queue, tasks, calls, obs, last>>

\* fixed_rate_loop hands updated_delay to its next iteration, whose callback
\* takes some other time.
CalcChain ==
  /\ calc.pc = "ret"
  /\ calc.debt <= MaxDur
  /\ \E e \in Durations :
       calc' = [calc EXCEPT !.pc = "call", !.execution = e, !.delay = calc.debt,
                            !.wait = 0, !.debt = 0]
  /\ UNCHANGED <<now, main, thr, core, remote, term, sentAt, queue, tasks, calls, obs, last>>

\* ------------------------------------------------------- specification
Next ==
  \/ ExecutorNew
  \/ SpawnFails
  \/ RemoteReceived
  \/ \E t \in Tasks, i \in Intervals : schedule_fixed_interval(t, i)
  \/ \E t \in Tasks, i \in Intervals : schedule_fixed_rate(t, i)
  \/ stop_async
  \/ stop_sync
  \/ JoinReturns
  \/ DropExecutor
  \/ CoreNew
  \/ SendRemote
  \/ CoreRun
  \/ ObserveTermination
  \/ ThreadExit
  \/ \E t \in Tasks, d \in ExecTimes : RunSpawned(t, d)
  \/ \E t \in Tasks, d \in ExecTimes : TimerFire(t, d)
  \/ \E t \in Tasks : CallbackReturn(t)
  \/ \E t \in Tasks : CallbackPanics(t)
  \/ Tick

\* An owner that makes up to MaxTasks schedule_* calls.
Spec == Init /\ [][Next]_vars

\* The steps the background thread, the clock and a blocked call of the owner
\* take by themselves.
ThreadStep ==
  \/ CoreNew
  \/ SendRemote
  \/ CoreRun
  \/ ThreadExit
  \/ \E t \in Tasks, d \in ExecTimes : RunSpawned(t, d)
  \/ \E t \in Tasks, d \in ExecTimes : TimerFire(t, d)
  \/ \E t \in Tasks : CallbackReturn(t)

\* The operating system runs the background thread and wakes the joining
\* owner, time passes, and the reactor polls the future given to core.run
\* after every turn, however many Timeouts are due (strong fairness).
Fairness ==
  /\ WF_vars(ThreadStep)
  /\ WF_vars(Tick)
  /\ WF_vars(RemoteReceived)
  /\ WF_vars(JoinReturns)
  /\ SF_vars(ObserveTermination)

SpecFair == Init /\ [][Next]_vars /\ Fairness

\* calculate_delay applied to every triple of Durations up to MaxDur.
InitCalc ==
  /\ InitSched
  /\ calls = 1
  /\ calc \in [pc : {"call"}, interval : Durations, execution : Durations,
               delay : Durations, wait : {0}, debt : {0}]

NextCalc == CalcCall \/ CalcChain

SpecCalc == InitCalc /\ [][NextCalc]_vars

\* An owner that makes at most one schedule_* call: a single scheduled loop,
\* followed over a longer time, with what its callback did recorded in obs.
SpecOne == InitOne /\ [][Next]_vars

\* ------------------------------------------------ calculate_delay: claims
\* A call of calculate_delay on calc's arguments has ended.
CalcEnded == calc.pc \in {"ret", "panic"}

\* C6: on overrun (execution >= interval) calculate_delay returns with
\* next_wait = 0 and updated_debt = debt + execution - interval, whatever the
\* prior debt; (10,11,0) gives (0,1) and (10,12,15) gives (0,17).
C6_OverrunAccumulatesDebt ==
  /\ (CalcEnded /\ calc.execution >= calc.interval) =>
        /\ calc.pc = "ret"
        /\ calc.wait = 0
        /\ calc.debt = calc.delay + calc.execution - calc.interval
  /\ calculate_delay(10, 11, 0) = <<0, 1>>
  /\ calculate_delay(10, 12, 15) = <<0, 17>>

C6_Witness ==
  /\ calc.pc = "ret"
  /\ calc.interval = 10 /\ calc.execution = 12 /\ calc.delay = 15
  /\ calc.wait = 0 /\ calc.debt = 17

\* C7: with execution < interval and debt < interval - execution,
\* calculate_delay returns next_wait = (interval - execution) - debt and
\* updated_debt = 0; (10,3,0) gives (7,0) and (10,3,3) gives (4,0).
C7_SlackConsumption ==
  /\ (/\ CalcEnded
      /\ calc.execution < calc.interval
      /\ calc.delay < calc.interval - calc.execution) =>
        /\ calc.pc = "ret"
        /\ calc.wait = (calc.interval - calc.execution) - calc.delay
        /\ calc.debt = 0
  /\ calculate_delay(10, 3, 0) = <<7, 0>>
  /\ calculate_delay(10, 3, 3) = <<4, 0>>

C7_Witness ==
  /\ calc.pc = "ret"
  /\ calc.interval = 10 /\ calc.execution = 3 /\ calc.delay = 3
  /\ calc.wait = 4 /\ calc.debt = 0

\* C8: with execution < interval and debt >= interval - execution,
\* calculate_delay returns next_wait = 0 and updated_debt = debt - (interval -
\* execution); (10,3,9) gives (0,2) and debt = interval - execution gives (0,0).
C8_InsufficientSlack ==
  /\ (/\ CalcEnded
      /\ calc.execution < calc.interval
      /\ calc.delay >= calc.interval - calc.execution) =>
        /\ calc.pc = "ret"
        /\ calc.wait = 0
        /\ calc.debt = calc.delay - (calc.interval - calc.execution)
  /\ calculate_delay(10, 3, 9) = <<0, 2>>
  /\ calculate_delay(10, 3, 7) = <<0, 0>>

C8_Witness ==
  /\ calc.pc = "ret"
  /\ calc.interval = 10 /\ calc.execution = 3 /\ calc.delay = 9
  /\ calc.wait = 0 /\ calc.debt = 2

\* C9: calculate_delay never panics on an underflowing subtraction and
\* returns next_wait >= 0 and updated_debt >= 0 for all non-negative
\* arguments, so the debt a fixed-rate loop hands on from iteration to
\* iteration is never negative.
C9_NoUnderflow ==
  /\ calc.pc # "panic"
  /\ calc.delay >= 0
  /\ calc.pc = "ret" => calc.wait >= 0 /\ calc.debt >= 0

\* The slack equals the debt: both subtractions of that branch give 0.
C9_Witness ==
  /\ calc.pc = "ret"
  /\ calc.execution < calc.interval
  /\ calc.delay > 0
  /\ calc.delay = calc.interval - calc.execution
  /\ calc.wait = 0 /\ calc.debt = 0

\* ------------------------------------------------------ shutdown: claims
Running(t) == tasks[t].st = "running"

\* The invocation of task t ended in a panic.
Lost(t) == tasks[t].st = "lost"

NoCallbackRunning ==
  \A t \in Tasks :
    /\ ~Running(t)
    /\ tasks[t].done = IF Lost(t) THEN tasks[t].count - 1 ELSE tasks[t].count

\* C1: stop_sync never returns while a callback is executing: once it has
\* returned the background thread has exited and every callback invocation
\* that was begun has completed; the thread never goes away in the middle
\* of a callback.
C1_StopSyncWaitsForCallback ==
  /\ main = "stopped_sync" => ThreadGone /\ NoCallbackRunning
  /\ ThreadGone => NoCallbackRunning
  /\ thr = "exited" => \A t \in Tasks : ~Lost(t)

\* stop_sync has returned later than its send: only a callback that was
\* executing when the signal was sent lets time pass in between.
C1_Witness ==
  /\ main = "stopped_sync"
  /\ sentAt >= 0 /\ now > sentAt
  /\ \E t \in Tasks : tasks[t].st = "armed" /\ tasks[t].done >= 1

\* C2: at most one callback is executing at any moment, whatever the number
\* of scheduled loops, and a loop begins invocation N+1 only after
\* invocation N has returned.
C2_OneCallbackAtATime ==
  /\ Cardinality({t \in Tasks : Running(t)}) <= 1
  /\ \A t \in Tasks :
        /\ Running(t) \/ Lost(t) => tasks[t].count = tasks[t].done + 1
        /\ ~Running(t) /\ ~Lost(t) => tasks[t].count = tasks[t].done
  /\ (\E t \in Tasks : Running(t)) <=> thr = "callback"

\* One loop's callback is still executing while the Timeout of another loop
\* has expired.
C2_Witness ==
  \E t, u \in Tasks :
    /\ t # u
    /\ Running(t) /\ tasks[t].at > now
    /\ tasks[u].st = "armed" /\ tasks[u].at <= now /\ tasks[u].done >= 1

\* ----------------------------------------------------- lifecycle: claims
Rank(c) ==
  CASE c = "none" -> 0
    [] c = "Created" -> 1
    [] c = "Running" -> 2
    [] c = "TerminationRequested" -> 3
    [] c = "Stopped" -> 4

\* C10: the execution context only moves forward through Created, Running,
\* TerminationRequested, Stopped, one state at a time (a panicking callback
\* takes it from Running to Stopped at once): it never goes back, nothing
\* leaves Stopped, and no callback invocation begins once it is Stopped.
C10_LifecycleForward ==
  [][/\ \/ Rank(core') \in {Rank(core), Rank(core) + 1}
        \/ core = "Running" /\ thr = "callback" /\ thr' = "panicked" /\ core' = "Stopped"
     /\ core = "Stopped" =>
          /\ core' = "Stopped"
          /\ \A t \in Tasks : tasks'[t].count = tasks[t].count]_vars

\* The context is Stopped with a Timeout that has expired and will never run.
C10_Witness ==
  /\ core = "Stopped"
  /\ \E t \in Tasks : tasks[t].st = "armed" /\ tasks[t].at <= now

\* ---------------------------------------------- a single loop: claims
\* The window of the tests: stop_sync has returned, and its signal was sent
\* 5.5 intervals after the first invocation of task 1.
StoppedAfterWindow ==
  /\ main = "stopped_sync"
  /\ tasks[1].count >= 1
  /\ 2 * (sentAt - tasks[1].first) = 11 * tasks[1].interval

AllFast == obs.firstExec = 0 /\ obs.restZero

SlowFirst == obs.firstExec = 3 * tasks[1].interval /\ obs.restZero

\* C3: a fixed-rate loop whose callback always takes no time is invoked
\* exactly at 0, I, 2I, ... after its first invocation, and has been invoked
\* exactly 6 times when stop_sync, called 5.5 intervals in, has returned.
C3_FixedRateFast ==
  (calls = 1 /\ tasks[1].policy = "rate" /\ tasks[1].count >= 1 /\ AllFast) =>
    /\ Running(1) =>
         tasks[1].start = tasks[1].first + (tasks[1].count - 1) * tasks[1].interval
    /\ tasks[1].st = "armed" =>
         tasks[1].at = tasks[1].first + tasks[1].count * tasks[1].interval
    /\ StoppedAfterWindow => tasks[1].count = 6

C3_Witness ==
  /\ calls = 1 /\ tasks[1].policy = "rate" /\ AllFast
  /\ StoppedAfterWindow
  /\ tasks[1].count = 6

\* C4: a fixed-rate loop whose first callback takes 3 intervals and whose
\* later callbacks take no time has been invoked exactly 6 times when
\* stop_sync, called 5.5 intervals in, has returned.
C4_FixedRateCatchUp ==
  (calls = 1 /\ tasks[1].policy = "rate" /\ SlowFirst /\ StoppedAfterWindow) =>
    tasks[1].count = 6

C4_Witness ==
  /\ calls = 1 /\ tasks[1].policy = "rate" /\ SlowFirst
  /\ StoppedAfterWindow
  /\ tasks[1].count = 6

\* C5: a fixed-interval loop whose first callback takes 3 intervals and
\* whose later callbacks take no time has been invoked exactly 4 times when
\* stop_sync, called 5.5 intervals in, has returned.
C5_FixedIntervalNoCatchUp ==
  (calls = 1 /\ tasks[1].policy = "interval" /\ SlowFirst /\ StoppedAfterWindow) =>
    tasks[1].count = 4

C5_Witness ==
  /\ calls = 1 /\ tasks[1].policy = "interval" /\ SlowFirst
  /\ StoppedAfterWindow
  /\ tasks[1].count = 4

\* ----------------------------------------------------- liveness: claims
\* C11: once stop_sync has sent the signal, it eventually returns (every
\* callback of the model returns), also while a fixed-rate loop re-arms
\* zero-length Timeouts to pay its debt; and when it has returned the
\* background thread is gone.
C11_StopSyncTerminates ==
  /\ (main = "joining") ~> (main = "stopped_sync")
  /\ [](main = "stopped_sync" => ThreadGone)

\* stop_sync has returned although a fixed-rate loop in debt had a
\* zero-length Timeout due.
C11_Witness ==
  /\ main = "stopped_sync"
  /\ \E t \in Tasks :
       /\ tasks[t].policy = "rate" /\ tasks[t].delay > 0
       /\ tasks[t].st = "armed" /\ tasks[t].at <= sentAt

\* ------------------------------------------------ stop_async: claim C12
\* C12: stop_async can complete in every state in which the owner holds the
\* Executor, whatever the background thread is doing; when it has returned
\* the signal has been sent; and callbacks run only until the reactor has
\* observed the signal.
C12_StopAsyncDoesNotWait ==
  /\ main = "ready" => ENABLED stop_async
  /\ main = "stopped_async" =>
       /\ term = "sent" \/ (term = "pending" /\ ThreadGone)
       /\ sentAt >= 0 /\ sentAt <= now
  /\ core \in {"TerminationRequested", "Stopped"} => \A t \in Tasks : ~Running(t)

\* stop_async has returned and a callback that began at a later tick is
\* executing: the loop fired after the signal was sent.
C12_Witness ==
  /\ main = "stopped_async"
  /\ thr = "callback"
  /\ \E t \in Tasks : Running(t) /\ tasks[t].start > sentAt

\* ------------------------------------- stop on a dead thread: claim C13
\* C13: a stop call made when the background thread is already gone (the
\* termination receiver is dropped) completes normally and changes nothing
\* but the owner's position: the failed send is ignored, nothing panics, and
\* the join of stop_sync returns at once.
C13_StopOnDeadThreadIsNoOp ==
  [][/\ (ThreadGone /\ main = "ready" /\ main' # "ready") =>
          /\ main' \in {"stopped_async", "joining", "dropped"}
          /\ main' # "dropped" => UNCHANGED <<now, thr, core, term, queue, tasks>>
     /\ (ThreadGone /\ main = "joining" /\ main' # "joining") =>
          /\ main' = "stopped_sync"
          /\ UNCHANGED <<now, thr, core, term, queue, tasks>>]_vars

\* stop_sync has returned although its send found the receiver dropped.
C13_Witness ==
  /\ main = "stopped_sync"
  /\ thr = "panicked"
  /\ term = "pending"

\* ---------------------------------------------- construction: claim C14
\* C14: the constructor has returned only if the background thread has
\* created its Core and sent the handle, so every task is submitted to a
\* context that exists.
C14_ConstructionHandshake ==
  /\ main \notin {"start", "wait_remote", "failed"} => remote /\ core # "none"
  /\ remote => core # "none"
  /\ (queue # <<>> \/ \E t \in Tasks : tasks[t].st # "none") =>
       remote /\ core # "none"

\* A task has been submitted to a Core that is created and not yet run.
C14_Witness ==
  /\ main = "ready"
  /\ core = "Created"
  /\ queue # <<>>

\* ------------------------------------- cross-task interference: claim C15
\* Task u is executing an invocation whose Timeout fell due while the
\* callback of another task, which returned at the current tick, was
\* blocking the thread.
HeldFiring(u) ==
  /\ Running(u)
  /\ last.by \notin {0, u}
  /\ last.late > 0
  /\ last.from <= tasks[u].start - last.late
  /\ tasks[u].start - last.late < last.to

C17_FixedIntervalShift ==
  LET r == tasks[1] IN
  (calls = 1 /\ r.policy = "interval") =>
    /\ r.delay = 0
    /\ Running(1) => r.start = r.first + (r.count - 1) * r.interval + obs.over
    /\ r.st = "armed" => r.at = r.first + r.count * r.interval + obs.over
    /\ (obs.over > 0 /\ r.st \in {"armed", "running"}) =>
         (r.count - 1) * r.interval < now - r.first

\* One execution exceeded the interval, the ones after it did not, and a
\* later firing has begun.
C17_Witness ==
  /\ calls = 1
  /\ tasks[1].policy = "interval"
  /\ Running(1)
  /\ obs.nover = 1 /\ obs.over > 0
  /\ tasks[1].count >= 4

\* ------------------------------------------ sustained overrun: claim C18
\* Every execution of the single loop that has completed took strictly
\* longer than the interval.
AllOver == tasks[1].done >= 1 /\ obs.nover = tasks[1].done

\* C18: while every execution of a fixed-rate loop takes strictly longer
\* than the interval, each return arms a Timeout that is due at once (wait
\* 0) with a debt strictly larger than before, equal to all the overrun so
\* far (nothing caps it); and the armed loop goes on with its next
\* invocation only: no iteration is dropped and the loop does not end.
C18_SustainedOverrun ==
  [][(calls = 1 /\ tasks[1].policy = "rate") =>
       /\ (Running(1) /\ tasks'[1].st = "armed" /\ AllOver') =>
            /\ tasks'[1].at = now
            /\ tasks'[1].delay > tasks[1].delay
            /\ tasks'[1].delay = obs'.over
            /\ tasks'[1].done = tasks[1].done + 1
       /\ (tasks[1].st = "armed" /\ tasks'[1] # tasks[1]) =>
            /\ tasks'[1].st = "running"
            /\ tasks'[1].count = tasks[1].count + 1
            /\ tasks'[1].delay = tasks[1].delay]_vars

\* The third execution in a row that exceeded the interval has returned: the
\* debt has grown three times and the next Timeout is due at once.
C18_Witness ==
  /\ calls = 1
  /\ tasks[1].policy = "rate"
  /\ tasks[1].st = "armed"
  /\ AllOver
  /\ tasks[1].done >= 3
  /\ tasks[1].at <= now
  /\ tasks[1].delay >= 3

\* ------------------------------------ one continuation per task: claim C19
\* C19: from its first dispatch until the context stops, a loop is either
\* inside its callback with no Timeout pending, or waiting with exactly one
\* Timeout pending; before its first dispatch it has neither; and it never
\* has two invocations in flight.
C19_OneContinuation ==
  \A t \in Tasks :
    /\ (tasks[t].count >= 1 /\ core \in {"Running", "TerminationRequested"}) =>
         \/ Running(t) /\ tasks[t].timers = 0
         \/ tasks[t].st = "armed" /\ tasks[t].timers = 1
    /\ tasks[t].count = 0 => tasks[t].st \in {"none", "queued"} /\ tasks[t].timers = 0
    /\ tasks[t].count - tasks[t].done \in {0, 1}
    /\ tasks[t].timers \in {0, 1}

\* Two loops between firings, each with its one Timeout pending, after
\* several iterations.
C19_Witness ==
  /\ core = "Running"
  /\ \A t \in Tasks :
       tasks[t].st = "armed" /\ tasks[t].timers = 1 /\ tasks[t].done >= 2

\* ------------------------------------------- dropped Executor: claim C20
\* C20: an Executor dropped without a stop call leaves the termination
\* channel cancelled, and from then on the background thread eventually
\* leaves core.run and exits with the context Stopped, after the callback
\* that may be running has returned; once the thread is gone no callback is
\* executing and none begins any more.
C20_DropShutsDown ==
  /\ (main = "dropped") ~> (ThreadGone /\ core = "Stopped")
  /\ [](main = "dropped" => term = "canceled")
  /\ [](ThreadGone => \A t \in Tasks : ~Running(t))
  /\ [][ThreadGone => \A t \in Tasks : tasks'[t].count = tasks[t].count]_vars

\* The Executor was dropped while a callback was executing, the callback
\* has returned at a later tick and the thread has exited.
C20_Witness ==
  /\ main = "dropped"
  /\ thr = "exited"
  /\ core = "Stopped"
  /\ now > sentAt
  /\ \E t \in Tasks : tasks[t].st = "armed" /\ tasks[t].done >= 1

====
